---- MODULE Spec2Model ----
(***************************************************************************)
(* Model of the grounded retrieval-and-grading loop of GenshinProject:     *)
(* GenshinRetrievalAgent.chat_with_grading (src/src/agent/agent.py), the   *)
(* AnswerGrader (src/src/agent/grader.py) and the AgentTracer              *)
(* (src/src/agent/tracer.py).                                              *)
(***************************************************************************)
EXTENDS Integers, Sequences, FiniteSets, TLC

(***************************************************************************)
(* Program constants.                                                      *)
(***************************************************************************)
DEPTH_HARD_THRESHOLD == 8
CITATION_HARD_THRESHOLD == 0
EVIDENCE_HARD_THRESHOLD == 5
SCORE_THRESHOLD == 70
DEFAULT_LIMIT == 5
UI_MAX_RETRIES == 5
TOOL_OUTPUT_CAP == 2000
CONTEXT_ANSWER_CAP == 150
HISTORY_ANSWER_CAP == 200
MAX_CHUNK_SIZE == 1500
MIN_CHUNK_SIZE == 200

(***************************************************************************)
(* Bounds of the model.                                                    *)
(***************************************************************************)
MaxToolCalls == 1
MaxResults == 3

None == [none |-> TRUE]

Min(a, b) == IF a < b THEN a ELSE b

RECURSIVE SumSeq(_)
SumSeq(s) == IF s = <<>> THEN 0 ELSE Head(s) + SumSeq(Tail(s))

SeqMap(Op(_), s) == [i \in 1..Len(s) |-> Op(s[i])]

Last(s) == s[Len(s)]

(***************************************************************************)
(* AnswerGrader.grade.  A JSON value of a score field is a number, absent  *)
(* or a non-number (a string, null); the grader's LLM either fails, or     *)
(* returns text with no JSON object, text whose braces hold invalid JSON,  *)
(* or a JSON object.                                                       *)
(***************************************************************************)
Num(n) == [t |-> "num", v |-> n]
Absent == [t |-> "absent", v |-> 0]
NonNum == [t |-> "nonnum", v |-> 0]

IsNum(x) == x.t = "num"
IsAbsent(x) == x.t = "absent"

ScoreAxes == <<"tool_usage", "evidence", "completeness", "citation", "depth">>

\* dict.get(key, 0): the value, 0 when the key is absent
GetOr0(x) == IF IsAbsent(x) THEN Num(0) ELSE x

\* sum(result.get("scores", {}).values()): raises TypeError on a non-number
ScoresPresent(scores) == SelectSeq(SeqMap(LAMBDA a : scores[a], ScoreAxes), LAMBDA x : ~IsAbsent(x))
SumRaises(scores) == \E i \in 1..Len(ScoresPresent(scores)) : ~IsNum(ScoresPresent(scores)[i])
SumScores(scores) == SumSeq(SeqMap(LAMBDA x : x.v, ScoresPresent(scores)))

_default_grade(reason) ==
    [score |-> Num(0), depth |-> Num(0), passed |-> FALSE,
     fail_reason |-> [kind |-> reason, floor |-> "", value |-> 0, bound |-> 0],
     suggestion |-> "retry_or_check_format", degraded |-> TRUE]

Verdict(total, depth, passed, floor, value, bound, suggestion) ==
    [score |-> total, depth |-> depth, passed |-> passed,
     fail_reason |-> IF passed THEN None
                     ELSE [kind |-> "floor", floor |-> floor, value |-> value, bound |-> bound],
     suggestion |-> suggestion, degraded |-> FALSE]

\* the "if not result.get('suggestion')" defaults of the three hard gates
GateSuggestion(given, fallback) == IF given = "" THEN fallback ELSE given

\* the if/elif chain of the hard thresholds; a comparison of a non-number raises
\* TypeError, caught by "except Exception"
DepthGateOffByOne(depth) == depth.v < DEPTH_HARD_THRESHOLD - 1

DepthGateFires(depth) == depth.v < DEPTH_HARD_THRESHOLD

NoEvidenceGate(evidence) == FALSE

EvidenceGateFires(evidence) == evidence.v < EVIDENCE_HARD_THRESHOLD

GradeJson(r) ==
    LET scoreMissing == IsAbsent(r.score)
        total    == IF scoreMissing THEN Num(SumScores(r.scores)) ELSE r.score
        depth    == GetOr0(r.scores["depth"])
        citation == GetOr0(r.scores["citation"])
        evidence == GetOr0(r.scores["evidence"])
        sugg     == r.suggestion
        failed   == _default_grade("grading_failed")
    IN  IF scoreMissing /\ SumRaises(r.scores) THEN failed
        ELSE IF ~IsNum(depth) THEN failed
        ELSE IF DepthGateFires(depth)
             THEN Verdict(total, depth, FALSE, "depth", depth.v, DEPTH_HARD_THRESHOLD,
                          GateSuggestion(sugg, "call_search_memory"))
        ELSE IF ~IsNum(citation) THEN failed
        ELSE IF citation.v < CITATION_HARD_THRESHOLD
             THEN Verdict(total, depth, FALSE, "citation", citation.v, CITATION_HARD_THRESHOLD,
                          GateSuggestion(sugg, "cite_chapter_task"))
        ELSE IF ~IsNum(evidence) THEN failed
        ELSE IF EvidenceGateFires(evidence)
             THEN Verdict(total, depth, FALSE, "evidence", evidence.v, EVIDENCE_HARD_THRESHOLD,
                          GateSuggestion(sugg, "ground_in_tool_output"))
        ELSE IF ~IsNum(total) THEN failed
        ELSE IF total.v >= SCORE_THRESHOLD
             THEN Verdict(total, depth, TRUE, "", 0, 0, sugg)
        ELSE Verdict(total, depth, FALSE, "score", total.v, SCORE_THRESHOLD, sugg)

\* the whole body of grade sits in one try with "except json.JSONDecodeError" and
\* "except Exception": every failure becomes a default verdict
GradeLetsDecodeErrorEscape(r) ==
    CASE r.kind = "llm_error" -> _default_grade("grading_failed")
      [] r.kind = "no_json"   -> _default_grade("unparseable")
      [] r.kind = "bad_json"  -> [raised |-> "JSONDecodeError"]
      [] OTHER                -> GradeJson(r)

grade(r) ==
    CASE r.kind = "llm_error" -> _default_grade("grading_failed")
      [] r.kind = "no_json"   -> _default_grade("unparseable")
      [] r.kind = "bad_json"  -> _default_grade("json_decode_error")
      [] OTHER                -> GradeJson(r)

(***************************************************************************)
(* Tool outputs.  A tool output is a text, modelled as the sequence of its *)
(* segments, each with its length in characters: "hdr" is one "### 结果"   *)
(* marker, "text" a chunk's story text, "arrow" one -[REL]-> of a path,    *)
(* "bold" one ** marker, "plain" anything else.                            *)
(***************************************************************************)
Seg(kind, len, label) == [kind |-> kind, len |-> len, label |-> label]

RECURSIVE Flatten(_)
Flatten(ss) == IF ss = <<>> THEN <<>> ELSE Head(ss) \o Flatten(Tail(ss))

\* search_memory's rendering of its results (sort_by = "relevance"); texts are
\* the lengths of the chunk texts of the results, in result order
SearchResultBlock(textLen) ==
    << Seg("hdr", 6, ""), Seg("plain", 4, ""),
       Seg("bold", 2, ""), Seg("plain", 2, ""), Seg("bold", 2, ""), Seg("plain", 24, ""),
       Seg("bold", 2, ""), Seg("plain", 3, ""), Seg("bold", 2, ""), Seg("plain", 9, ""),
       Seg("text", textLen, ""), Seg("plain", 7, "") >>

RenderSearch(texts) ==
    IF texts = <<>> THEN << Seg("plain", 80, "") >>
    ELSE << Seg("plain", 30, "") >> \o Flatten(SeqMap(SearchResultBlock, texts))

\* find_connection's rendering of a path with the given relation labels
RenderConnection(rels) ==
    << Seg("plain", 20, ""), Seg("bold", 2, ""), Seg("plain", 2, ""), Seg("bold", 2, ""),
       Seg("plain", 8, "") >>
    \o Flatten(SeqMap(LAMBDA r : << Seg("arrow", 16, r), Seg("plain", 3, "") >>, rels))
    \o << Seg("bold", 2, ""), Seg("plain", 7, ""), Seg("bold", 2, ""), Seg("plain", 10, "") >>

\* output[:cap]: a segment cut in the middle keeps its first characters and is no
\* longer a complete marker
RECURSIVE Slice(_, _)
Slice(segs, cap) ==
    IF segs = <<>> \/ cap <= 0 THEN <<>>
    ELSE IF Head(segs).len <= cap
         THEN << Head(segs) >> \o Slice(Tail(segs), cap - Head(segs).len)
         ELSE << Seg(IF Head(segs).kind = "text" THEN "text" ELSE "plain", cap, "") >>

TruncateToolOutput(segs, cap) == Slice(segs, cap)

Count(segs, kind) == Len(SelectSeq(segs, LAMBDA g : g.kind = kind))

_summarize_tool_output(tool, output) ==
    CASE tool = "find_connection" ->
            LET arrows == SelectSeq(output, LAMBDA g : g.kind = "arrow")
            IN  IF arrows = <<>> THEN [kind |-> "found_relation", n |-> 0, label |-> ""]
                ELSE [kind |-> "relation", n |-> 0, label |-> Head(arrows).label]
      [] tool \in {"search_memory", "search_memory_with_limit"} ->
            [kind |-> "fragments", n |-> Count(output, "hdr"), label |-> ""]
      [] tool = "lookup_knowledge" -> [kind |-> "entity_info", n |-> 0, label |-> ""]
      [] tool = "get_character_events" ->
            [kind |-> "events", n |-> Count(output, "bold") \div 2, label |-> ""]
      [] tool = "track_journey" -> [kind |-> "timeline", n |-> 0, label |-> ""]
      [] OTHER -> [kind |-> "executed", n |-> 0, label |-> ""]

\* answer[:n] + "..." when the answer is longer than n characters
TruncateAnswer(answer, n) ==
    IF answer.len > n THEN [answer EXCEPT !.len = n, !.cut = TRUE] ELSE answer

ToolLine(tc) ==
    [tool |-> tc.tool, kwargs |-> tc.kwargs,
     summary |-> _summarize_tool_output(tc.tool, tc.output)]

_build_attempt_context(attempt_data) ==
    [attempt |-> attempt_data.attempt,
     tool_calls |-> SeqMap(ToolLine, attempt_data.tool_calls),
     answer |-> TruncateAnswer(attempt_data.answer, CONTEXT_ANSWER_CAP),
     score |-> attempt_data.grade.score,
     depth |-> attempt_data.grade.depth,
     fail_reason |-> attempt_data.grade.fail_reason,
     suggestion |-> attempt_data.grade.suggestion,
     refiner |-> attempt_data.refiner_queries]

(***************************************************************************)
(* State.  The fields of one GenshinRetrievalAgent and of its AgentTracer, *)
(* the locals of the running chat_with_grading call and its position.      *)
(***************************************************************************)
VARIABLES
    pc,                  \* position of the call
    enable_grader,       \* self.enable_grader
    agent_init,          \* self._agent is not None
    ctx,                 \* self._ctx: the attempts whose dialogue and observations it holds
    current_limit,       \* self._current_limit
    pending,             \* self._pending_context_summary
    current_trace,       \* tracer.current_trace
    current_attempt,     \* tracer.current_attempt
    trace_file,          \* the trace file written by end_trace
    max_retries,         \* argument of the call
    attempt,             \* loop variable
    grading_history,
    attempts_history,
    current_query,
    attempt_tool_calls,
    tool_calls_history,
    answer,
    passed,
    grade_result,
    humanized,
    humanizer_calls,     \* completions requested from the LLM by _humanize_response
    result,              \* value returned by the call
    fn_in,               \* input of the function under test (function specifications)
    fn_out,              \* its result
    handles,             \* search_memory's module-level _embedder, _indexer, _graph_searcher
    sess,                \* each session's position in its first search_memory call
    disk,                \* content of the dialogue files
    cache,               \* IncrementalKGExtractor.cache: the contents with a cached result
    tracking,            \* IncrementalKGExtractor.tracking: file -> content hash
    processed            \* per file, the content extract_file last completed on

vars == << pc, enable_grader, agent_init, ctx, current_limit, pending, current_trace,
           current_attempt, trace_file, max_retries, attempt, grading_history,
           attempts_history, current_query, attempt_tool_calls, tool_calls_history,
           answer, passed, grade_result, humanized, humanizer_calls, result,
           fn_in, fn_out, handles, sess, disk, cache, tracking, processed >>

agentVars == << enable_grader, agent_init, ctx, current_limit, pending >>
tracerVars == << current_trace, current_attempt, trace_file >>
localVars == << max_retries, attempt, grading_history, attempts_history, current_query,
                attempt_tool_calls, tool_calls_history, answer, passed, grade_result,
                humanized, humanizer_calls, result >>
fnVars == << fn_in, fn_out >>
lazyVars == << handles, sess >>
extractorVars == << disk, cache, tracking, processed >>
moduleVars == << lazyVars, extractorVars >>

Query == "Q"

\* LIMIT_PROGRESSION.get(attempt, 5)
LIMIT_PROGRESSION(k) ==
    CASE k = 1 -> 3
      [] k = 2 -> 5
      [] k = 3 -> 8
      [] OTHER -> DEFAULT_LIMIT

(***************************************************************************)
(* What the environment can answer.                                        *)
(***************************************************************************)
\* lengths of the controller's answers, in characters
AnswerLens == {260}

JsonReply(depth, citation, evidence, score, suggestion) ==
    [kind |-> "json",
     scores |-> [tool_usage |-> Num(12), evidence |-> evidence, completeness |-> Num(12),
                 citation |-> citation, depth |-> depth],
     score |-> score, suggestion |-> suggestion]

NoReply(kind) ==
    [kind |-> kind,
     scores |-> [tool_usage |-> Absent, evidence |-> Absent, completeness |-> Absent,
                 citation |-> Absent, depth |-> Absent],
     score |-> Absent, suggestion |-> ""]

\* grader replies met by the retry loop: a passing one and a failing one
LoopReplies ==
    { JsonReply(Num(20), Num(12), Num(15), Num(80), ""),
      JsonReply(Num(5), Num(12), Num(15), Num(60), "quote_dialogue") }

RefinerOutcomes == { << "q1", "q2" >> }

\* chunk texts of the store that match the controller's search, best first
StoreTexts == << MAX_CHUNK_SIZE, MIN_CHUNK_SIZE, MIN_CHUNK_SIZE >>

\* the ToolCallResult events the controller can emit under the given limit
ToolEvents(limit) ==
    { [tool |-> "search_memory_with_limit", kwargs |-> "query=Q",
       output |-> RenderSearch(SubSeq(StoreTexts, 1, Min(limit, Len(StoreTexts))))],
      [tool |-> "find_connection", kwargs |-> "entity1=A,entity2=B",
       output |-> RenderConnection(<< "PARTNER_OF" >>)] }

(***************************************************************************)
(* AgentTracer.                                                            *)
(***************************************************************************)
start_trace(query, n) ==
    [query |-> query, max_retries |-> n, attempts |-> <<>>, final_response |-> None,
     passed |-> FALSE, humanized_response |-> None, ended |-> FALSE]

start_attempt(k, limit, input_query) ==
    [attempt |-> k, limit |-> limit, input_query |-> input_query,
     context_from_previous |-> None, tool_calls |-> <<>>, response |-> None,
     grading |-> None, refiner |-> None]

log_context_injection(cur, summary) ==
    IF cur = None THEN cur ELSE [cur EXCEPT !.context_from_previous = summary]

log_tool_call(cur, tool, input_data, output) ==
    IF cur = None THEN cur
    ELSE [cur EXCEPT !.tool_calls =
              Append(@, [tool |-> tool, input |-> input_data, output |-> output])]

log_grading(cur, output) ==
    IF cur = None THEN cur ELSE [cur EXCEPT !.grading = output]

log_refiner(cur, queries) ==
    IF cur = None THEN cur ELSE [cur EXCEPT !.refiner = [queries |-> queries]]

\* end_attempt: the pair << current_trace', current_attempt' >>
end_attempt(trace, cur, response) ==
    IF cur = None \/ trace = None THEN << trace, cur >>
    ELSE << [trace EXCEPT !.attempts = Append(@, [cur EXCEPT !.response = response])], None >>

(***************************************************************************)
(* GenshinRetrievalAgent.                                                  *)
(***************************************************************************)
KeepContext(initialized, c) == c

\* reset_context: self._ctx = Context(self._agent) when the agent exists
reset_context(initialized, c) == IF initialized THEN {} ELSE c

\* self._agent.run(msg, ctx=self._ctx): the run's dialogue goes into the context
RunOn(c, k) == c \cup {k}

KeepLastOnly(history, attempt_data) == << attempt_data >>

\* attempts_history.append(attempt_data)
AppendAttempt(history, attempt_data) == Append(history, attempt_data)

\* the retry prompt: the contexts of the earlier attempts, then the current task
RetryQuery(history, query, queries) ==
    [kind |-> "retry",
     history |-> SeqMap(_build_attempt_context, history),
     task |-> query,
     hint |-> queries]

RawQuery(query) == [kind |-> "raw", history |-> <<>>, task |-> query, hint |-> <<>>]

HumanizeAlways(p) == TRUE

\* "if passed:" before the humanizer
ShouldHumanize(p) == p

LoopIgnoresPass(p) == FALSE

\* "if passed: ... break"
BreaksLoop(p) == p

\* search_memory.py as imported: no handle created, each session about to make its
\* first search_memory call, which asks for the embedder, the indexer and the graph
\* searcher in this order
Handles == << "embedder", "indexer", "graph_searcher" >>
Sessions == { 1, 2 }
NoInstance == 0

Unloaded ==
    /\ handles = [i \in 1..Len(Handles) |-> [global |-> NoInstance, made |-> {}]]
    /\ sess = [s \in Sessions |-> [pc |-> "check", h |-> 1,
                                   used |-> [i \in 1..Len(Handles) |-> NoInstance]]]

\* an IncrementalKGExtractor (or IncrementalEventExtractor) constructed over an empty
\* cache directory, and the dialogue files as first written
Files == { "f1", "f2" }
Contents == { "c1", "c2" }
NoContent == ""

\* hashlib.md5(content).hexdigest(): equal exactly for equal contents
_hash_content(content) == [md5 |-> content]

\* a file with no entry in self.tracking
Untracked == [md5 |-> NoContent]

FreshExtractor ==
    /\ disk = [f \in Files |-> "c1"]
    /\ cache = {}
    /\ tracking = [f \in Files |-> Untracked]
    /\ processed = [f \in Files |-> NoContent]

\* the agent after __init__, no call made yet
Constructed ==
    /\ Unloaded
    /\ FreshExtractor
    /\ pc = "init"
    /\ agent_init = FALSE
    /\ ctx = {}
    /\ current_limit = DEFAULT_LIMIT
    /\ pending = None
    /\ current_trace = None
    /\ current_attempt = None
    /\ trace_file = None
    /\ max_retries = 0
    /\ attempt = 0
    /\ grading_history = <<>>
    /\ attempts_history = <<>>
    /\ current_query = RawQuery(Query)
    /\ attempt_tool_calls = <<>>
    /\ tool_calls_history = <<>>
    /\ answer = None
    /\ passed = FALSE
    /\ grade_result = None
    /\ humanized = None
    /\ humanizer_calls = 0
    /\ result = None

Init ==
    /\ Constructed
    /\ enable_grader \in BOOLEAN
    /\ fn_in = None
    /\ fn_out = None

\* chat_with_grading up to the loop: _ensure_initialized, the fallback to chat when
\* no grader is configured, start_trace and the initial values of the locals
Call ==
    /\ pc = "init"
    /\ agent_init' = TRUE
    /\ \E n \in 1..UI_MAX_RETRIES :
          /\ max_retries' = n
          /\ IF enable_grader
             THEN /\ current_trace' = start_trace(Query, n)
                  /\ pc' = "loop"
                  /\ ctx' = ctx
             ELSE /\ current_trace' = current_trace
                  /\ pc' = "chat"
                  /\ ctx' = RunOn(ctx, 0)
    /\ UNCHANGED << enable_grader, current_limit, pending, current_attempt, trace_file,
                    attempt, grading_history, attempts_history, current_query,
                    attempt_tool_calls, tool_calls_history, answer, passed, grade_result,
                    humanized, humanizer_calls, result, fnVars, moduleVars >>

\* chat(query): the controller run returns or raises
FallbackChat ==
    /\ pc = "chat"
    /\ \E ok \in BOOLEAN :
          IF ok
          THEN /\ result' = [answer |-> [attempt |-> 0, len |-> 120, cut |-> FALSE],
                             humanized |-> FALSE, history |-> <<>>]
               /\ pc' = "returned"
          ELSE /\ result' = result
               /\ pc' = "raised"
    /\ UNCHANGED << agentVars, tracerVars, max_retries, attempt, grading_history,
                    attempts_history, current_query, attempt_tool_calls,
                    tool_calls_history, answer, passed, grade_result, humanized,
                    humanizer_calls, fnVars, moduleVars >>

\* head of one iteration "for attempt in range(1, max_retries + 1)": the limit,
\* start_attempt, the pending context injection, and the start of the controller run
LoopHead ==
    /\ pc = "loop"
    /\ attempt < max_retries
    /\ attempt' = attempt + 1
    /\ current_limit' = LIMIT_PROGRESSION(attempt + 1)
    /\ current_attempt' =
          LET started == start_attempt(attempt + 1, LIMIT_PROGRESSION(attempt + 1), current_query)
          IN  IF pending # None THEN log_context_injection(started, pending) ELSE started
    /\ pending' = None
    /\ ctx' = RunOn(ctx, attempt + 1)
    /\ attempt_tool_calls' = <<>>
    /\ pc' = "stream"
    /\ UNCHANGED << enable_grader, agent_init, current_trace, trace_file, max_retries,
                    grading_history, attempts_history, current_query, tool_calls_history,
                    answer, passed, grade_result, humanized, humanizer_calls, result,
                    fnVars, moduleVars >>

\* one ToolCallResult event of handler.stream_events()
StreamToolCall ==
    /\ pc = "stream"
    /\ Len(attempt_tool_calls) < MaxToolCalls
    /\ \E ev \in ToolEvents(current_limit) :
          /\ attempt_tool_calls' =
                Append(attempt_tool_calls,
                       [tool |-> ev.tool, kwargs |-> ev.kwargs,
                        output |-> TruncateToolOutput(ev.output, TOOL_OUTPUT_CAP)])
          /\ current_attempt' = log_tool_call(current_attempt, ev.tool, ev.kwargs, ev.output)
    /\ UNCHANGED << pc, agentVars, current_trace, trace_file, max_retries, attempt,
                    grading_history, attempts_history, current_query, tool_calls_history,
                    answer, passed, grade_result, humanized, humanizer_calls, result,
                    fnVars, moduleVars >>

\* the stream ends and "await handler" returns the response
StreamEnd ==
    /\ pc = "stream"
    /\ \E n \in AnswerLens : answer' = [attempt |-> attempt, len |-> n, cut |-> FALSE]
    /\ tool_calls_history' = tool_calls_history \o attempt_tool_calls
    /\ pc' = "grade"
    /\ UNCHANGED << agentVars, tracerVars, max_retries, attempt, grading_history,
                    attempts_history, current_query, attempt_tool_calls, passed,
                    grade_result, humanized, humanizer_calls, result, fnVars, moduleVars >>

\* the controller run raises (LLM or store failure): nothing in chat_with_grading
\* catches it
StreamRaise ==
    /\ pc = "stream"
    /\ pc' = "raised"
    /\ UNCHANGED << agentVars, tracerVars, localVars, fnVars, moduleVars >>

\* the grader's verdict: log_grading, grading_history, then the three branches
\* (pass: end_attempt and break; fail with budget left: go on to the refiner;
\* last attempt: end_attempt and leave the loop)
GradeStep ==
    /\ pc = "grade"
    /\ \E reply \in LoopReplies :
          LET g == grade(reply)
              graded == log_grading(current_attempt, g)
              ended == end_attempt(current_trace, graded, answer)
          IN  /\ grade_result' = g
              /\ grading_history' =
                    Append(grading_history,
                           [attempt |-> attempt, limit |-> current_limit,
                            answer |-> TruncateAnswer(answer, HISTORY_ANSWER_CAP),
                            grade |-> g, passed |-> g.passed,
                            fail_reason |-> g.fail_reason,
                            tool_calls |-> Len(attempt_tool_calls)])
              /\ passed' = g.passed
              /\ IF BreaksLoop(g.passed)
                 THEN /\ current_trace' = ended[1]
                      /\ current_attempt' = ended[2]
                      /\ pc' = IF ShouldHumanize(g.passed) THEN "humanize" ELSE "end_trace"
                 ELSE IF attempt < max_retries
                 THEN /\ current_trace' = current_trace
                      /\ current_attempt' = graded
                      /\ pc' = "refine"
                 ELSE /\ current_trace' = ended[1]
                      /\ current_attempt' = ended[2]
                      /\ pc' = IF ShouldHumanize(g.passed) THEN "humanize" ELSE "end_trace"
    /\ UNCHANGED << agentVars, trace_file, max_retries, attempt, attempts_history,
                    current_query, attempt_tool_calls, tool_calls_history, answer,
                    humanized, humanizer_calls, result, fnVars, moduleVars >>

\* the refiner's queries, then the preparation of the retry: log_refiner,
\* attempts_history, end_attempt, the retry prompt, reset_context and the pending
\* context summary
RefineStep ==
    /\ pc = "refine"
    /\ \E queries \in RefinerOutcomes :
          LET attempt_data == [attempt |-> attempt, tool_calls |-> attempt_tool_calls,
                               answer |-> answer, grade |-> grade_result,
                               refiner_queries |-> queries]
              history == AppendAttempt(attempts_history, attempt_data)
              ended == end_attempt(current_trace, log_refiner(current_attempt, queries), answer)
          IN  /\ attempts_history' = history
              /\ current_trace' = ended[1]
              /\ current_attempt' = ended[2]
              /\ current_query' = RetryQuery(history, Query, queries)
              /\ pending' =
                    [from_attempts |-> SeqMap(LAMBDA a : a.attempt, history),
                     last_tool_summary |->
                        IF attempt_tool_calls # <<>>
                        THEN _summarize_tool_output(attempt_tool_calls[1].tool,
                                                    attempt_tool_calls[1].output)
                        ELSE None,
                     score |-> grade_result.score, depth |-> grade_result.depth,
                     fail_reason |-> grade_result.fail_reason,
                     refiner_queries |-> queries]
    /\ ctx' = reset_context(agent_init, ctx)
    /\ pc' = "loop"
    /\ UNCHANGED << enable_grader, agent_init, current_limit, trace_file, max_retries,
                    attempt, grading_history, attempt_tool_calls, tool_calls_history,
                    answer, passed, grade_result, humanized, humanizer_calls, result,
                    fnVars, moduleVars >>

\* _humanize_response: the rewritten text, an empty completion, or the original
\* answer when the LLM call fails
HumanizeStep ==
    /\ pc = "humanize"
    /\ humanizer_calls' = humanizer_calls + 1
    /\ \E outcome \in {"rewritten", "empty", "original"} :
          humanized' = [kind |-> outcome, of |-> answer]
    /\ pc' = "end_trace"
    /\ UNCHANGED << agentVars, tracerVars, max_retries, attempt, grading_history,
                    attempts_history, current_query, attempt_tool_calls,
                    tool_calls_history, answer, passed, grade_result, result, fnVars, moduleVars >>

\* end_trace and the return: the trace's final fields are set, the file is written
\* (or open/json.dump raises), current_trace is cleared, and the call returns
\* "humanized if humanized else answer" with the grading history
EndTrace ==
    /\ pc = "end_trace"
    /\ \E written \in BOOLEAN :
          LET final == IF current_trace = None THEN None
                       ELSE [current_trace EXCEPT !.final_response = answer,
                                                  !.humanized_response = humanized,
                                                  !.passed = passed,
                                                  !.ended = TRUE]
          IN  IF written \/ current_trace = None
              THEN /\ trace_file' = IF current_trace = None THEN trace_file ELSE final
                   /\ current_trace' = None
                   /\ result' = [answer |-> answer,
                                 humanized |-> (humanized # None /\ humanized.kind = "rewritten"),
                                 history |-> grading_history]
                   /\ pc' = "returned"
              ELSE /\ trace_file' = trace_file
                   /\ current_trace' = final
                   /\ result' = result
                   /\ pc' = "raised"
    /\ UNCHANGED << agentVars, current_attempt, max_retries, attempt, grading_history,
                    attempts_history, current_query, attempt_tool_calls,
                    tool_calls_history, answer, passed, grade_result, humanized,
                    humanizer_calls, fnVars, moduleVars >>

Next ==
    \/ Call
    \/ FallbackChat
    \/ LoopHead
    \/ StreamToolCall
    \/ StreamEnd
    \/ StreamRaise
    \/ GradeStep
    \/ RefineStep
    \/ HumanizeStep
    \/ EndTrace

Spec == Init /\ [][Next]_vars

(***************************************************************************)
(* AnswerGrader.grade as a function of the grader LLM's outcome.           *)
(***************************************************************************)
DepthValues == { Absent, NonNum, Num(0), Num(7), Num(8), Num(20) }
CitationValues == { Absent, NonNum, Num(-1), Num(0), Num(12) }
EvidenceValues == { Absent, NonNum, Num(4), Num(5), Num(15) }
TotalValues == { Absent, NonNum, Num(69), Num(70), Num(95) }

GraderReplies ==
    { NoReply(k) : k \in {"llm_error", "no_json", "bad_json"} }
    \cup { JsonReply(d, c, e, t, g) : d \in DepthValues, c \in CitationValues,
                                      e \in EvidenceValues, t \in TotalValues,
                                      g \in {"", "quote_dialogue"} }

\* what the graded answer concludes: an answer, "I don't know", or a text on which
\* a conclusion check's own LLM call would fail
Conclusions == { "HAS_ANSWER", "NO_ANSWER", "check_failed" }

InitGrade ==
    /\ Constructed
    /\ enable_grader = TRUE
    /\ fn_in \in { [fn |-> "grade", reply |-> r, conclusion |-> c] :
                      r \in GraderReplies, c \in Conclusions }
    /\ fn_out = None

ApplyGrade ==
    /\ fn_out = None
    /\ fn_in.fn = "grade"
    /\ fn_out' = grade(fn_in.reply)
    /\ UNCHANGED << pc, agentVars, tracerVars, localVars, moduleVars, fn_in >>

SpecGrade == InitGrade /\ [][ApplyGrade]_vars

(***************************************************************************)
(* The retry prompt as a function of the earlier attempt, for two runs     *)
(* whose search results differ in nothing but the chunk texts.             *)
(***************************************************************************)
ChunkTexts == UNION { [1..n -> {MIN_CHUNK_SIZE, MAX_CHUNK_SIZE}] : n \in 1..MaxResults }

\* the attempt_data of an attempt that searched, got the given chunk texts, looked
\* a connection up, answered and failed the grader
AttemptWith(texts) ==
    [attempt |-> 1,
     tool_calls |->
        << [tool |-> "search_memory_with_limit", kwargs |-> "query=Q",
            output |-> TruncateToolOutput(RenderSearch(texts), TOOL_OUTPUT_CAP)],
           [tool |-> "find_connection", kwargs |-> "entity1=A,entity2=B",
            output |-> TruncateToolOutput(RenderConnection(<< "PARTNER_OF" >>),
                                          TOOL_OUTPUT_CAP)] >>,
     answer |-> [attempt |-> 1, len |-> 260, cut |-> FALSE],
     grade |-> grade(JsonReply(Num(5), Num(12), Num(15), Num(60), "quote_dialogue")),
     refiner_queries |-> << "q1", "q2" >>]

InitContext ==
    /\ Constructed
    /\ enable_grader = TRUE
    /\ fn_in \in { [fn |-> "context", a |-> ta, b |-> tb] :
                      ta \in ChunkTexts, tb \in ChunkTexts }
    /\ Len(fn_in.a) = Len(fn_in.b)
    /\ fn_out = None

ApplyContext ==
    /\ fn_out = None
    /\ fn_in.fn = "context"
    /\ fn_out' = [a |-> RetryQuery(<< AttemptWith(fn_in.a) >>, Query, << "q1", "q2" >>),
                  b |-> RetryQuery(<< AttemptWith(fn_in.b) >>, Query, << "q1", "q2" >>)]
    /\ UNCHANGED << pc, agentVars, tracerVars, localVars, moduleVars, fn_in >>

SpecContext == InitContext /\ [][ApplyContext]_vars

(***************************************************************************)
(* Claims.                                                                 *)
(***************************************************************************)
Ended == pc \in {"returned", "raised"}
TraceStarted == enable_grader /\ pc # "init"
AllFailed(history) == \A i \in 1..Len(history) : ~history[i].passed

\* C1: chat_with_grading runs attempts numbered 1, 2, ... in order, at most
\* max_retries of them, none after the first attempt whose verdict is pass, and it
\* returns only after a pass or after max_retries failed attempts.
C1AttemptsBounded ==
    /\ attempt <= max_retries
    /\ Len(grading_history) <= attempt
    /\ Len(grading_history) >= attempt - 1
    /\ \A i \in 1..Len(grading_history) : grading_history[i].attempt = i
    /\ \A i \in 1..(Len(grading_history) - 1) : ~grading_history[i].passed
    /\ (current_trace # None) =>
          /\ \A i \in 1..Len(current_trace.attempts) : current_trace.attempts[i].attempt = i
          /\ Len(current_trace.attempts) <= attempt
    /\ (pc = "stream") => (~passed /\ AllFailed(grading_history))
    /\ (pc = "returned" /\ enable_grader) =>
          /\ Len(grading_history) = attempt
          /\ \/ passed /\ Last(grading_history).passed
             \/ ~passed /\ attempt = max_retries /\ AllFailed(grading_history)

C1Witness ==
    /\ pc = "returned"
    /\ max_retries = 4
    /\ Len(grading_history) = 2
    /\ ~grading_history[1].passed
    /\ grading_history[2].passed

\* C2: for every attempt k >= 2 of a call, whatever max_retries is, the search_memory
\* limit set for attempt k is at least the limit set for attempt k-1.
C2LimitsNeverShrink ==
    \A k \in 2..Len(grading_history) :
        grading_history[k].limit >= grading_history[k - 1].limit

\* C3: grade returns passed = false whenever the depth sub-score is below the depth
\* floor (a missing depth counting as 0), whatever the other scores and the total.
DepthOf(reply) == GetOr0(reply.scores["depth"])

C3DepthFloor ==
    (fn_out # None /\ IsNum(DepthOf(fn_in.reply))
        /\ DepthOf(fn_in.reply).v < DEPTH_HARD_THRESHOLD)
    => ~fn_out.passed

C3Witness ==
    /\ fn_out # None
    /\ fn_in.reply = JsonReply(Num(7), Num(12), Num(15), Num(95), "")
    /\ ~fn_out.passed
    /\ fn_out.fail_reason.floor = "depth"

\* the total the gates use: the "score" field, or the sum of the sub-scores when
\* the field is absent
AxisOf(reply, axis) == GetOr0(reply.scores[axis]).v
TotalOf(reply) ==
    IF IsAbsent(reply.score)
    THEN AxisOf(reply, "tool_usage") + AxisOf(reply, "evidence")
         + AxisOf(reply, "completeness") + AxisOf(reply, "citation") + AxisOf(reply, "depth")
    ELSE reply.score.v

AllNumeric(reply) ==
    /\ reply.kind = "json"
    /\ reply.score.t # "nonnum"
    /\ \A i \in 1..Len(ScoreAxes) : reply.scores[ScoreAxes[i]].t # "nonnum"

FloorViolated(reply, floor) ==
    CASE floor = "depth"    -> AxisOf(reply, "depth") < DEPTH_HARD_THRESHOLD
      [] floor = "citation" -> AxisOf(reply, "citation") < CITATION_HARD_THRESHOLD
      [] floor = "evidence" -> AxisOf(reply, "evidence") < EVIDENCE_HARD_THRESHOLD
      [] floor = "score"    -> TotalOf(reply) < SCORE_THRESHOLD
      [] OTHER              -> FALSE

PassExactlyWhen(reply, verdict, floors) ==
    /\ verdict.passed <=> (\A f \in floors : ~FloorViolated(reply, f))
    /\ ~verdict.passed =>
          /\ verdict.fail_reason # None
          /\ verdict.fail_reason.kind = "floor"
          /\ verdict.fail_reason.floor \in floors
          /\ FloorViolated(reply, verdict.fail_reason.floor)

C5HumanizerOnlyOnPass ==
    /\ humanizer_calls <= 1
    /\ (humanizer_calls = 1) =>
          (passed /\ Last(grading_history).passed /\ pc \in {"end_trace", "returned", "raised"})
    /\ (pc \in {"end_trace", "returned"} /\ enable_grader) =>
          /\ passed = Last(grading_history).passed
          /\ humanizer_calls = (IF passed THEN 1 ELSE 0)
    /\ (pc = "returned" /\ enable_grader /\ ~passed) =>
          /\ Len(grading_history) = max_retries
          /\ AllFailed(grading_history)
          /\ ~result.humanized
          /\ result.answer = [attempt |-> max_retries, len |-> answer.len, cut |-> FALSE]
          /\ result.answer = Last(trace_file.attempts).response
          /\ result.history = grading_history
          /\ trace_file.humanized_response = None
          /\ ~trace_file.passed

C5Witness ==
    /\ pc = "returned"
    /\ max_retries = 3
    /\ Len(grading_history) = 3
    /\ ~passed
    /\ humanizer_calls = 0
    /\ trace_file.humanized_response = None

\* C6: the message given to the controller in attempt k >= 2 has one summary section
\* for each of the attempts 1..k-1, in ascending order, none missing or repeated,
\* followed by the original question; attempt 1 gets the raw question only.
C6HistoryChronological ==
    (pc = "stream") =>
        /\ current_attempt.input_query = current_query
        /\ current_query.task = Query
        /\ IF attempt = 1
           THEN current_query = RawQuery(Query)
           ELSE /\ current_query.kind = "retry"
                /\ Len(current_query.history) = attempt - 1
                /\ \A i \in 1..(attempt - 1) :
                      /\ current_query.history[i].attempt = i
                      /\ current_query.history[i].answer.attempt = i
                      /\ Len(current_query.history[i].tool_calls) = grading_history[i].tool_calls
                      /\ current_query.history[i].fail_reason = grading_history[i].fail_reason

C6Witness ==
    /\ pc = "stream"
    /\ attempt = 3
    /\ Len(current_query.history) = 2
    /\ current_query.history[1].attempt = 1
    /\ current_query.history[2].attempt = 2

\* C7: between a failed attempt k < max_retries and attempt k+1 the conversation
\* context is replaced by a fresh one: attempt k+1 never runs on a context that holds
\* the dialogue or observations of attempts 1..k.
C7FreshContextPerRetry ==
    (pc \in {"stream", "grade"}) => (\A k \in 1..(attempt - 1) : k \notin ctx)

C7Witness ==
    /\ pc = "stream"
    /\ attempt = 2
    /\ ~grading_history[1].passed
    /\ ctx = {2}

\* C8: two runs whose earlier tool outputs differ only in chunk text (same tools,
\* arguments, result counts and relation labels, same answers and grades) produce
\* identical retry messages.
C8NoChunkTextInRetryMessage ==
    (fn_out # None) => (fn_out.a = fn_out.b)

\* the tool calls recorded in a trace, in order
RecordedCalls(trace) ==
    Flatten(SeqMap(LAMBDA a : SeqMap(LAMBDA tc : << tc.tool, tc.input >>, a.tool_calls),
                   trace.attempts))

\* the tool calls passed to log_tool_call by the call, in order: those of the
\* finished controller runs, then those of a run that was aborted
LoggedCalls ==
    SeqMap(LAMBDA tc : << tc.tool, tc.kwargs >>,
           tool_calls_history
           \o (IF Len(grading_history) < attempt /\ pc = "raised"
               THEN attempt_tool_calls ELSE <<>>))

\* C9: for every query the saved trace holds exactly one attempt record per attempt
\* run, in run order, and every logged tool call is recorded inside the attempt that
\* was open when it was logged: none is lost or attributed to another attempt.
C9TraceComplete ==
    (Ended /\ TraceStarted) =>
        /\ trace_file # None
        /\ Len(trace_file.attempts) = attempt
        /\ \A i \in 1..attempt : trace_file.attempts[i].attempt = i
        /\ RecordedCalls(trace_file) = LoggedCalls
        /\ \A i \in 1..Len(grading_history) :
              Len(trace_file.attempts[i].tool_calls) = grading_history[i].tool_calls

\* C10: once chat_with_grading has started a trace, the trace is ended and its file
\* written before the call returns or raises.
C10TraceAlwaysClosed ==
    (Ended /\ TraceStarted) =>
        /\ trace_file # None
        /\ trace_file.ended
        /\ current_trace = None

\* C11: when the controller run of attempt k aborts with an exception and
\* k < max_retries, attempt k is recorded as a fail verdict and the call goes on to
\* attempt k+1 instead of ending.
C11AbortedAttemptAdvances ==
    [][(pc = "stream" /\ attempt < max_retries /\ pc' \notin {"stream", "grade"})
        => /\ pc' \in {"refine", "loop"}
           /\ Len(grading_history') = attempt
           /\ ~Last(grading_history').passed]_vars

\* C12: grade never raises: for every outcome of the grader's LLM it returns a
\* verdict holding score, passed, fail_reason and suggestion; a fail carries a
\* non-empty fail_reason, and every degraded outcome (call failure, no JSON object,
\* invalid JSON, a non-numeric score field) is a fail.
DegradedOutcome(reply) ==
    \/ reply.kind # "json"
    \/ reply.score.t = "nonnum"
    \/ \E i \in 1..Len(ScoreAxes) : reply.scores[ScoreAxes[i]].t = "nonnum"

C13UnknownConclusionFails ==
    (fn_out # None /\ fn_in.conclusion = "NO_ANSWER") => ~fn_out.passed

(***************************************************************************)
(* Alias resolution.  CHARACTER_ALIASES is a dict from alias to canonical  *)
(* name; the graph holds Character nodes with a name and a list of         *)
(* aliases, and its full-text index "entity_alias_index" answers a name    *)
(* with the nodes whose name or aliases match it, best score first.  The   *)
(* graph store may be down, and then every query raises.                   *)
(***************************************************************************)
Names == { "n1", "n2", "n3" }

AliasTables == UNION { [D -> Names] : D \in SUBSET Names }

Nodes == { [name |-> n, aliases |-> A] : n \in Names, A \in {{}} \cup { {x} : x \in Names } }

Graphs ==
    { <<>> } \cup { << nd >> : nd \in Nodes }
    \cup { p \in Nodes \X Nodes : p[1].name # p[2].name }

\* CALL db.index.fulltext.queryNodes("entity_alias_index", $name) ... LIMIT 5
queryNodes(graph, name) ==
    LET matches == SelectSeq(graph, LAMBDA nd : nd.name = name \/ name \in nd.aliases)
    IN  SubSeq(matches, 1, Min(Len(matches), 5))

\* GraphSearcher._resolve_canonical_name: the first result with aliases, else the
\* first result, else (no result, or the query raised) the name itself
_resolve_canonical_name(env, entity_name) ==
    IF ~env.up THEN entity_name
    ELSE LET results == queryNodes(env.graph, entity_name)
             seeded == SelectSeq(results, LAMBDA res : res.aliases # {})
         IN  IF seeded # <<>> THEN Head(seeded).name
             ELSE IF results # <<>> THEN Head(results).name
             ELSE entity_name

_resolve_character_alias(env, name) ==
    IF name \in DOMAIN env.table THEN env.table[name]
    ELSE _resolve_canonical_name(env, name)

\* the names set of _get_all_character_names (its list has no defined order)
_get_all_character_names(env, name) ==
    LET table == env.table
        manual == IF name \in DOMAIN table
                  THEN { table[name] }
                       \cup { alias \in DOMAIN table : table[alias] = table[name] }
                  ELSE { alias \in DOMAIN table : table[alias] = name }
        canonical == _resolve_canonical_name(env, name)
    IN  { name } \cup manual \cup (IF canonical # name THEN { canonical } ELSE {})

InitResolve ==
    /\ Constructed
    /\ enable_grader = TRUE
    /\ fn_in \in { [fn |-> "resolve", name |-> n, env |-> [table |-> t, graph |-> g, up |-> u]] :
                      n \in Names, t \in AliasTables, g \in Graphs, u \in BOOLEAN }
    /\ fn_out = None

\* _resolve_character_alias(name), and again on its own result
ApplyResolve ==
    /\ fn_out = None
    /\ fn_in.fn = "resolve"
    /\ fn_out' = LET once == _resolve_character_alias(fn_in.env, fn_in.name)
                 IN  [fn |-> "resolve", once |-> once,
                      twice |-> _resolve_character_alias(fn_in.env, once)]
    /\ UNCHANGED << pc, agentVars, tracerVars, localVars, moduleVars, fn_in >>

ApplyExpand ==
    /\ fn_out = None
    /\ fn_in.fn = "resolve"
    /\ fn_out' = [fn |-> "expand", names |-> _get_all_character_names(fn_in.env, fn_in.name)]
    /\ UNCHANGED << pc, agentVars, tracerVars, localVars, moduleVars, fn_in >>

\* the canonical name the graph tools query with: GraphSearcher.search (lookup_knowledge),
\* get_path_between (find_connection), search_history (track_journey) and
\* get_major_events (get_character_events) each call self._resolve_canonical_name
ApplyGraphTool ==
    /\ fn_out = None
    /\ fn_in.fn = "resolve"
    /\ fn_out' = [fn |-> "graph_tool", canonical |-> _resolve_canonical_name(fn_in.env, fn_in.name)]
    /\ UNCHANGED << pc, agentVars, tracerVars, localVars, moduleVars, fn_in >>

SpecResolve == InitResolve /\ [][ApplyResolve \/ ApplyExpand \/ ApplyGraphTool]_vars

\* C18: resolving the result of a resolution changes nothing, for every name and
\* every state of the alias table and the graph index.
C18ResolveIdempotent ==
    (fn_out # None /\ fn_out.fn = "resolve") => fn_out.twice = fn_out.once

\* C19: the expansion of a name contains the name and its canonical, and every name
\* of the expansion resolves to that same canonical.
C19ExpandSameCanonical ==
    (fn_out # None /\ fn_out.fn = "expand") =>
        /\ fn_in.name \in fn_out.names
        /\ _resolve_character_alias(fn_in.env, fn_in.name) \in fn_out.names
        /\ \A m \in fn_out.names :
              _resolve_character_alias(fn_in.env, m)
                 = _resolve_character_alias(fn_in.env, fn_in.name)

(***************************************************************************)
(* search_memory.  The vector store holds chunks; a chunk belongs to the   *)
(* event (task_id, event_order) of a chapter and names its speaker.  The   *)
(* store is given as the sequence of its chunks in descending score for    *)
(* the embedding of the query; for the embedding of the augmented query    *)
(* the ranking is the reverse one.                                         *)
(***************************************************************************)
MaxChunks == 3
MAX_LIMIT == 20
FETCH_FACTOR == 8

ChunkKinds ==
    { [task |-> e[1], ev |-> e[2], speaker |-> sp] :
         e \in { <<1, 1>>, <<1, 2>>, <<2, 1>> }, sp \in { "n2", "n3" } }

Stores == UNION { [1..n -> ChunkKinds] : n \in 0..MaxChunks }

\* the alias table and graph of the searches: n1 is a manual alias of n2
SearchEnv == [table |-> [a \in {"n1"} |-> "n2"], graph |-> <<>>, up |-> TRUE]

Reverse(s) == [i \in 1..Len(s) |-> s[Len(s) + 1 - i]]

\* the points of the store ranked for a vector, with id, score and payload
RankedPoints(store, vector) ==
    LET ids == [i \in 1..Len(store) |-> i]
        order == IF vector = "q" THEN ids ELSE Reverse(ids)
    IN  [r \in 1..Len(store) |->
            [id |-> order[r], score |-> Len(store) - r, task |-> store[order[r]].task,
             ev |-> store[order[r]].ev, chapter |-> store[order[r]].task,
             speaker |-> store[order[r]].speaker]]

NoFilter == [on |-> FALSE, any |-> {}]

\* client.query_points(query, limit, query_filter)
query_points(store, vector, limit, filter) ==
    LET matching == SelectSeq(RankedPoints(store, vector),
                              LAMBDA pt : ~filter.on \/ pt.speaker \in filter.any)
    IN  SubSeq(matching, 1, Min(limit, Len(matching)))

TiesReversed(x, y) == x.chapter < y.chapter \/ (x.chapter = y.chapter /\ x.ev <= y.ev)

TimeBefore(x, y) == x.chapter < y.chapter \/ (x.chapter = y.chapter /\ x.ev < y.ev)

RECURSIVE InsertByTime(_, _)
InsertByTime(x, s) ==
    IF s = <<>> THEN << x >>
    ELSE IF TimeBefore(x, Head(s)) THEN << x >> \o s
    ELSE << Head(s) >> \o InsertByTime(x, Tail(s))

\* results.sort(key = (chapter_number, event_order)), a stable sort
RECURSIVE SortByTime(_)
SortByTime(s) ==
    IF s = <<>> THEN <<>>
    ELSE InsertByTime(Last(s), SortByTime(SubSeq(s, 1, Len(s) - 1)))

\* VectorIndexer.search
indexer_search(store, vector, limit, filter, sort_by) ==
    LET search_limit == IF sort_by = "relevance" THEN limit ELSE limit * 2
        results == query_points(store, vector, search_limit, filter)
    IN  IF sort_by = "time"
        THEN LET sorted == SortByTime(results)
             IN  SubSeq(sorted, 1, Min(limit, Len(sorted)))
        ELSE results

EventKey(pt) == << pt.task, pt.ev >>

RECURSIVE DedupFrom(_, _)
DedupFrom(results, seen) ==
    IF results = <<>> THEN <<>>
    ELSE IF EventKey(Head(results)) \in seen THEN DedupFrom(Tail(results), seen)
    ELSE << Head(results) >> \o DedupFrom(Tail(results), seen \cup { EventKey(Head(results)) })

KeepEveryChunk(results) == results

_deduplicate_results(results) == DedupFrom(results, {})

EnoughAtTwice(unique_results, target_limit) == Len(unique_results) >= 2 * target_limit

\* "if len(unique_results) >= target_limit: break"
EnoughResults(unique_results, target_limit) == Len(unique_results) >= target_limit

\* the loop "while fetch_limit <= max_fetch", from the given fetch_limit on; log
\* is the sequence of the indexer.search calls made, with their deduplicated counts
RECURSIVE ExpandingSearch(_, _, _, _, _, _, _, _)
ExpandingSearch(store, vector, filter, sort_by, target_limit, fetch_limit, unique_results, log) ==
    IF fetch_limit > target_limit * FETCH_FACTOR
    THEN [unique |-> unique_results, log |-> log]
    ELSE LET raw_results == indexer_search(store, vector, fetch_limit, filter, sort_by)
             unique == _deduplicate_results(raw_results)
             logged == Append(log, [size |-> fetch_limit, unique |-> Len(unique),
                                   vector |-> vector, filtered |-> filter.on])
         IN  IF EnoughResults(unique, target_limit)
             THEN [unique |-> unique, log |-> logged]
             ELSE ExpandingSearch(store, vector, filter, sort_by, target_limit,
                                  fetch_limit * 2, unique, logged)

search_memory(store, characters, sort_by, limit) ==
    LET all_character_names ==
            IF characters # "" THEN _get_all_character_names(SearchEnv, characters) ELSE {}
        resolved_characters ==
            IF characters # "" THEN _resolve_character_alias(SearchEnv, characters) ELSE ""
        filter_conditions ==
            IF characters = "" THEN NoFilter
            ELSE IF Cardinality(all_character_names) > 1
                 THEN [on |-> TRUE, any |-> all_character_names]
                 ELSE [on |-> TRUE, any |-> { resolved_characters }]
        target_limit == Min(limit, MAX_LIMIT)
        filtered == ExpandingSearch(store, "q", filter_conditions, sort_by, target_limit,
                                    target_limit, <<>>, <<>>)
        fallback_used == filtered.unique = <<>> /\ filter_conditions.on
                         /\ resolved_characters # ""
        fallback == IF fallback_used
                    THEN ExpandingSearch(store, "aug", NoFilter, sort_by, target_limit,
                                         target_limit, filtered.unique, <<>>)
                    ELSE [unique |-> filtered.unique, log |-> <<>>]
        results == IF target_limit <= 0 THEN <<>>
                   ELSE SubSeq(fallback.unique, 1, Min(target_limit, Len(fallback.unique)))
        note == IF characters = "" THEN "none"
                ELSE IF results # <<>> /\ fallback_used THEN "fallback_used"
                ELSE IF results # <<>> /\ Cardinality(all_character_names) > 1
                     THEN "filtered_any"
                ELSE IF resolved_characters # "" /\ resolved_characters # characters
                     THEN "filtered_resolved"
                ELSE "filtered"
    IN  [fn |-> "search", results |-> results, fallback_used |-> fallback_used,
         report |-> [kind |-> IF results = <<>> THEN "not_found" ELSE "found",
                     note |-> note],
         filter_fetches |-> filtered.log, fallback_fetches |-> fallback.log,
         embedded |-> IF fallback_used THEN << "q", "aug" >> ELSE << "q" >>,
         filter_conditions |-> filter_conditions]

SearchLimits == { 0, 1, 2, 25 }

InitSearch ==
    /\ Constructed
    /\ enable_grader = TRUE
    /\ fn_in \in { [fn |-> "search", store |-> st, characters |-> c, sort_by |-> sb,
                    limit |-> l] :
                      st \in Stores, c \in { "", "n1", "n3" },
                      sb \in { "relevance", "time" }, l \in SearchLimits }
    /\ fn_out = None

ApplySearch ==
    /\ fn_out = None
    /\ fn_in.fn = "search"
    /\ fn_out' = search_memory(fn_in.store, fn_in.characters, fn_in.sort_by, fn_in.limit)
    /\ UNCHANGED << pc, agentVars, tracerVars, localVars, moduleVars, fn_in >>

SpecSearch == InitSearch /\ [][ApplySearch]_vars

Searched == fn_out # None /\ fn_out.fn = "search"

\* C14: the result list of search_memory has no two entries with the same
\* (task_id, event_order), on the filter path and on the fallback path.
C14NoDuplicateEvents ==
    Searched =>
        \A i, j \in 1..Len(fn_out.results) :
            i # j => EventKey(fn_out.results[i]) # EventKey(fn_out.results[j])

C14Witness ==
    /\ Searched
    /\ fn_out.fallback_used
    /\ Len(fn_out.results) = 2
    /\ Len(fn_in.store) = 3
    /\ fn_in.store[1].task = fn_in.store[2].task
    /\ fn_in.store[1].ev = fn_in.store[2].ev

\* C15: with target = min(limit, 20) and limit >= 1 each search path asks for target,
\* 2*target, 4*target, 8*target results in that order, stops at the first fetch
\* whose deduplicated count reaches target, makes at most 4 fetches, and the result
\* has at most target entries.
PathFetches(log, target) ==
    /\ Len(log) \in 1..4
    /\ SeqMap(LAMBDA f : f.size, log)
          = SubSeq(<< target, 2 * target, 4 * target, 8 * target >>, 1, Len(log))
    /\ \A i \in 1..(Len(log) - 1) : log[i].unique < target
    /\ Len(log) < 4 => Last(log).unique >= target

C16FallbackReported ==
    (Searched /\ fn_in.limit >= 1) =>
        /\ fn_out.fallback_used <=>
              (fn_in.characters # "" /\ Last(fn_out.filter_fetches).unique = 0)
        /\ fn_out.fallback_used =>
              /\ fn_out.fallback_fetches # <<>>
              /\ \A i \in 1..Len(fn_out.fallback_fetches) :
                    /\ fn_out.fallback_fetches[i].vector = "aug"
                    /\ ~fn_out.fallback_fetches[i].filtered
              /\ fn_out.report.note = "fallback_used"

\* C17: sort_by changes only the order: the events returned with sort_by = "time" are
\* those returned with sort_by = "relevance" for the same store, filter and limit,
\* listed in ascending (chapter, event_order).
EventKeys(results) == { EventKey(results[i]) : i \in 1..Len(results) }

C17SortOnlyReorders ==
    (Searched /\ fn_in.sort_by = "time") =>
        /\ EventKeys(fn_out.results)
              = EventKeys(search_memory(fn_in.store, fn_in.characters, "relevance",
                                        fn_in.limit).results)
        /\ \A i, j \in 1..Len(fn_out.results) :
              i < j => ~TimeBefore(fn_out.results[j], fn_out.results[i])

(***************************************************************************)
(* get_character_events.  The graph holds MajorEvent nodes linked to a     *)
(* character, listed here in chapter order; an event_type of None and the  *)
(* empty string are both "no type given".  effects is the sequence of the  *)
(* graph operations the call made.                                         *)
(***************************************************************************)
VALID_EVENT_TYPES ==
    { "sacrifice", "transformation", "acquisition", "loss", "encounter", "conflict",
      "revelation", "milestone" }

EVENTS_LIMIT == 20

EventTypeInputs == { "", "sacrifice", "milestone", "betrayal", "Sacrifice", "death" }

MajorEventStores ==
    LET e1 == [character |-> "n2", event_type |-> "sacrifice", chapter |-> 1]
        e2 == [character |-> "n2", event_type |-> "milestone", chapter |-> 2]
    IN  { <<>>, << e1 >>, << e2 >>, << e1, e2 >> }

\* GraphSearcher.get_major_events: the events of the canonical character, of the
\* given type when one is given, in chapter order, at most limit
get_major_events(env, store, entity, event_type, limit) ==
    LET canonical_name == _resolve_canonical_name(env, entity)
        found == SelectSeq(store,
                           LAMBDA e : /\ e.character = canonical_name
                                      /\ (event_type = "" \/ e.event_type = event_type))
    IN  SubSeq(found, 1, Min(limit, Len(found)))

SkipValidation(event_type) == TRUE

\* not (event_type and event_type not in VALID_EVENT_TYPES)
ValidEventType(event_type) == event_type = "" \/ event_type \in VALID_EVENT_TYPES

get_character_events(env, store, entity, event_type) ==
    IF ~ValidEventType(event_type)
    THEN [fn |-> "events", kind |-> "invalid_type", listed |-> VALID_EVENT_TYPES,
          effects |-> <<>>, events |-> <<>>]
    ELSE IF ~env.up
    THEN [fn |-> "events", kind |-> "raised", listed |-> {},
          effects |-> << "connect" >>, events |-> <<>>]
    ELSE LET events == get_major_events(env, store, entity, event_type, EVENTS_LIMIT)
         IN  [fn |-> "events", kind |-> IF events = <<>> THEN "no_events" ELSE "events",
              listed |-> {}, effects |-> << "connect", "resolve", "query" >>,
              events |-> events]

InitEvents ==
    /\ Constructed
    /\ enable_grader = TRUE
    /\ fn_in \in { [fn |-> "events", entity |-> n, event_type |-> t, store |-> st,
                    env |-> [table |-> << >>, graph |-> g, up |-> u]] :
                      n \in Names, t \in EventTypeInputs, st \in MajorEventStores,
                      g \in Graphs, u \in BOOLEAN }
    /\ fn_out = None

ApplyEvents ==
    /\ fn_out = None
    /\ fn_in.fn = "events"
    /\ fn_out' = get_character_events(fn_in.env, fn_in.store, fn_in.entity, fn_in.event_type)
    /\ UNCHANGED << pc, agentVars, tracerVars, localVars, moduleVars, fn_in >>

SpecEvents == InitEvents /\ [][ApplyEvents]_vars

\* C20: for every non-empty event_type outside the eight types get_character_events
\* returns an error listing all valid types, without raising and without any
\* resolution or graph query; the graph is touched only after validation passed.
C20ValidationFirst ==
    (fn_out # None /\ fn_out.fn = "events") =>
        /\ (fn_in.event_type # "" /\ fn_in.event_type \notin VALID_EVENT_TYPES) =>
              /\ fn_out.kind = "invalid_type"
              /\ fn_out.listed = VALID_EVENT_TYPES
              /\ fn_out.effects = <<>>
        /\ fn_out.effects # <<>> =>
              (fn_in.event_type = "" \/ fn_in.event_type \in VALID_EVENT_TYPES)

C20Witness ==
    /\ fn_out # None
    /\ fn_out.fn = "events"
    /\ fn_in.event_type = "betrayal"
    /\ ~fn_in.env.up
    /\ fn_out.kind = "invalid_type"
    /\ Cardinality(fn_out.listed) = 8

\* C21: search_memory with limit = 0 is rejected with a structured error before any
\* embedding or vector-store query, and the report differs from "no results found".
C21ZeroLimitRejected ==
    (Searched /\ fn_in.limit = 0) =>
        /\ fn_out.embedded = <<>>
        /\ fn_out.filter_fetches = <<>>
        /\ fn_out.fallback_fetches = <<>>
        /\ fn_out.report.kind # "not_found"

(***************************************************************************)
(* QueryRefiner.refine as a function of the refiner LLM's outcome.  The    *)
(* question is a string, given as the sequence of its characters.          *)
(***************************************************************************)
MaxArray == 4
MaxQuestion == 3
MAX_QUERIES == 3

STOP_WORDS == { "shi", "de", "he" }

QuestionChars == { "shi", "de", "x", "y" }

Questions == UNION { [1..n -> QuestionChars] : n \in 1..MaxQuestion }

\* the refiner LLM fails, returns text that is no JSON, a JSON value that is no
\* array, or a JSON array of n strings
RefinerReplies ==
    { [kind |-> k, n |-> 0] : k \in { "llm_error", "unparseable", "non_array" } }
    \cup { [kind |-> "array", n |-> n] : n \in 0..MaxArray }

\* len(w) of a w drawn by "for w in question": one character
CharLen(w) == 1

\* " ".join(words[:3]) as the sequence of the joined words
JoinWords(words) == [kind |-> "terms", words |-> SubSeq(words, 1, Min(3, Len(words)))]

_fallback_queries(question) ==
    LET words == SelectSeq(question, LAMBDA w : w \notin STOP_WORDS /\ CharLen(w) > 1)
        original == [kind |-> "question", words |-> question]
    IN  IF Len(words) >= 2 THEN << original, JoinWords(words) >> ELSE << original >>

refine(reply, question) ==
    IF reply.kind = "array" /\ reply.n > 0
    THEN [i \in 1..Min(reply.n, MAX_QUERIES) |-> [kind |-> "llm", words |-> << "q", i >>]]
    ELSE _fallback_queries(question)

InitRefine ==
    /\ Constructed
    /\ enable_grader = TRUE
    /\ fn_in \in { [fn |-> "refine", reply |-> r, question |-> q] :
                      r \in RefinerReplies, q \in Questions }
    /\ fn_out = None

ApplyRefine ==
    /\ fn_out = None
    /\ fn_in.fn = "refine"
    /\ fn_out' = [fn |-> "refine", queries |-> refine(fn_in.reply, fn_in.question)]
    /\ UNCHANGED << pc, agentVars, tracerVars, localVars, moduleVars, fn_in >>

SpecRefine == InitRefine /\ [][ApplyRefine]_vars

\* C22: refine never raises and returns 2 to 3 search strings for every outcome of
\* the refiner's LLM.
C22TwoToThreeQueries ==
    (fn_out # None /\ fn_out.fn = "refine") => Len(fn_out.queries) \in 2..3

\* C23: a failure inside the trace recorder never reaches the pipeline: when
\* end_trace cannot write the trace file, chat_with_grading still returns the answer
\* and the grading history.
C23RecorderFailureSwallowed ==
    [][pc = "end_trace" => (pc' = "returned" /\ result' # None)]_vars

(***************************************************************************)
(* Lazy initialization of search_memory's module-level handles by two      *)
(* sessions, each running its tools in its own thread: a getter tests the  *)
(* global, constructs and assigns when it saw None, and returns the        *)
(* global.  An instance is named after the session that constructed it.    *)
(***************************************************************************)
InitLazy ==
    /\ Constructed
    /\ enable_grader = TRUE
    /\ fn_in = None
    /\ fn_out = None

\* "if _embedder is None:"
LazyCheck ==
    \E s \in Sessions :
        /\ sess[s].pc = "check"
        /\ sess' = [sess EXCEPT ![s].pc =
                      IF handles[sess[s].h].global = NoInstance THEN "construct" ELSE "return"]
        /\ UNCHANGED << pc, agentVars, tracerVars, localVars, fnVars, handles, extractorVars >>

\* "_embedder = EmbeddingGenerator()"
LazyConstruct ==
    \E s \in Sessions :
        /\ sess[s].pc = "construct"
        /\ handles' = [handles EXCEPT ![sess[s].h] =
                          [global |-> s, made |-> @.made \cup { s }]]
        /\ sess' = [sess EXCEPT ![s].pc = "return"]
        /\ UNCHANGED << pc, agentVars, tracerVars, localVars, fnVars, extractorVars >>

\* "return _embedder", and on to the next getter of the call
LazyReturn ==
    \E s \in Sessions :
        /\ sess[s].pc = "return"
        /\ sess' = [sess EXCEPT ![s] =
                      [pc |-> IF @.h < Len(Handles) THEN "check" ELSE "done",
                       h |-> IF @.h < Len(Handles) THEN @.h + 1 ELSE @.h,
                       used |-> [@.used EXCEPT ![sess[s].h] = handles[sess[s].h].global]]]
        /\ UNCHANGED << pc, agentVars, tracerVars, localVars, fnVars, handles, extractorVars >>

SpecLazy == InitLazy /\ [][LazyCheck \/ LazyConstruct \/ LazyReturn]_vars

\* C24: when two sessions make their first search_memory call concurrently, each
\* handle is constructed exactly once and both sessions use that one instance.
C24SingleInstance ==
    \A i \in 1..Len(Handles) :
        /\ Cardinality(handles[i].made) <= 1
        /\ \A s, t \in Sessions :
              (sess[s].used[i] # NoInstance /\ sess[t].used[i] # NoInstance)
                 => sess[s].used[i] = sess[t].used[i]

(***************************************************************************)
(* IncrementalKGExtractor and IncrementalEventExtractor: extract_file,     *)
(* get_changed_files and clear_tracking over dialogue files that are       *)
(* edited between the calls.                                               *)
(***************************************************************************)
get_changed_files(d, t) ==
    { f \in Files : t[f] = Untracked \/ t[f] # _hash_content(d[f]) }

\* a dialogue file is rewritten with another content
WriteFile ==
    \E f \in Files, c \in Contents :
        /\ c # disk[f]
        /\ disk' = [disk EXCEPT ![f] = c]
        /\ fn_out' = None
        /\ UNCHANGED << pc, agentVars, tracerVars, localVars, fn_in, lazyVars, cache,
                        tracking, processed >>

\* extract_file(file_path, force): a cache hit returns the cached result at once;
\* otherwise the LLM extracts (or raises), the result is cached and the file tracked
ExtractFile ==
    \E f \in Files, force \in BOOLEAN, llm_ok \in BOOLEAN :
        /\ IF ~force /\ disk[f] \in cache
           THEN /\ processed' = [processed EXCEPT ![f] = disk[f]]
                /\ UNCHANGED << cache, tracking >>
           ELSE IF llm_ok
           THEN /\ cache' = cache \cup { disk[f] }
                /\ tracking' = [tracking EXCEPT ![f] = _hash_content(disk[f])]
                /\ processed' = [processed EXCEPT ![f] = disk[f]]
           ELSE UNCHANGED << cache, tracking, processed >>
        /\ fn_out' = None
        /\ UNCHANGED << pc, agentVars, tracerVars, localVars, fn_in, lazyVars, disk >>

ClearTracking ==
    /\ tracking' = [f \in Files |-> Untracked]
    /\ fn_out' = None
    /\ UNCHANGED << pc, agentVars, tracerVars, localVars, fn_in, lazyVars, disk, cache,
                    processed >>

GetChangedFiles ==
    /\ fn_out' = [fn |-> "changed", files |-> get_changed_files(disk, tracking)]
    /\ UNCHANGED << pc, agentVars, tracerVars, localVars, fn_in, moduleVars >>

InitExtract ==
    /\ Constructed
    /\ enable_grader = TRUE
    /\ fn_in = None
    /\ fn_out = None

SpecExtract ==
    InitExtract /\ [][WriteFile \/ ExtractFile \/ ClearTracking \/ GetChangedFiles]_vars

\* C26: once extract_file has processed a file (by extraction or by cache hit),
\* get_changed_files does not report it while its content is unchanged and reports
\* it once the content is modified, also after clear_tracking.
C26ProcessedNotReported ==
    (fn_out # None /\ fn_out.fn = "changed") =>
        \A f \in Files :
            /\ processed[f] = disk[f] => f \notin fn_out.files
            /\ (processed[f] # NoContent /\ processed[f] # disk[f]) => f \in fn_out.files

(***************************************************************************)
(* A later turn of a session: the agent has answered an earlier turn, by   *)
(* chat or by a chat_with_grading call that passed, so it is initialized   *)
(* and its context holds that turn's dialogue.                             *)
(***************************************************************************)
PriorTurn == 0 - 1

InitSession ==
    /\ Unloaded
    /\ FreshExtractor
    /\ pc = "init"
    /\ enable_grader \in BOOLEAN
    /\ agent_init = TRUE
    /\ ctx = RunOn({}, PriorTurn)
    /\ current_limit = DEFAULT_LIMIT
    /\ pending = None
    /\ current_trace = None
    /\ current_attempt = None
    /\ trace_file = None
    /\ max_retries = 0
    /\ attempt = 0
    /\ grading_history = <<>>
    /\ attempts_history = <<>>
    /\ current_query = RawQuery(Query)
    /\ attempt_tool_calls = <<>>
    /\ tool_calls_history = <<>>
    /\ answer = None
    /\ passed = FALSE
    /\ grade_result = None
    /\ humanized = None
    /\ humanizer_calls = 0
    /\ result = None
    /\ fn_in = None
    /\ fn_out = None

SpecSession == InitSession /\ [][Next]_vars

\* C25: the session's context persists across turns: when chat_with_grading (or
\* chat) returns, with or without retries, the dialogue of the earlier turn is still
\* in the context the next call will run on.
C25ContextPersists ==
    pc = "returned" => PriorTurn \in ctx

MaxEmissions == 3
NoInput == ""
Emissions == { [action |-> a, input |-> i] : a \in { "A", "B" }, i \in { "x", "y", NoInput } }
RawStreams == UNION { [1..n -> Emissions] : n \in 0..MaxEmissions }

\* ACTION_PATTERN.findall(raw_stream)
FindActions(raw_stream) == SeqMap(LAMBDA e : e.action, raw_stream)

\* ACTION_INPUT_PATTERN.findall(raw_stream)
FindActionInputs(raw_stream) ==
    SeqMap(LAMBDA e : e.input, SelectSeq(raw_stream, LAMBDA e : e.input # NoInput))

\* the loop over enumerate(actions) from index i on
RECURSIVE UniqueFrom(_, _, _, _)
UniqueFrom(actions, action_inputs, i, seen) ==
    IF i > Len(actions) THEN [actions |-> <<>>, observations |-> <<>>]
    ELSE LET action_input == IF i <= Len(action_inputs) THEN action_inputs[i] ELSE NoInput
             key == << actions[i], action_input >>
         IN  IF key \in seen
             THEN UniqueFrom(actions, action_inputs, i + 1, seen)
             ELSE LET rest == UniqueFrom(actions, action_inputs, i + 1, seen \cup { key })
                  IN  [actions |-> << actions[i] >> \o rest.actions,
                       observations |-> (IF action_input # NoInput
                                         THEN << action_input >> ELSE <<>>)
                                        \o rest.observations]

\* the loop with a "seen" that remembers the previous emission only
RECURSIVE AdjacentFrom(_, _, _, _)
AdjacentFrom(actions, action_inputs, i, seen) ==
    IF i > Len(actions) THEN [actions |-> <<>>, observations |-> <<>>]
    ELSE LET action_input == IF i <= Len(action_inputs) THEN action_inputs[i] ELSE NoInput
             key == << actions[i], action_input >>
         IN  IF key \in seen
             THEN AdjacentFrom(actions, action_inputs, i + 1, { key })
             ELSE LET rest == AdjacentFrom(actions, action_inputs, i + 1, { key })
                  IN  [actions |-> << actions[i] >> \o rest.actions,
                       observations |-> (IF action_input # NoInput
                                         THEN << action_input >> ELSE <<>>)
                                        \o rest.observations]

_parse_adjacent_only(raw_stream) ==
    AdjacentFrom(FindActions(raw_stream), FindActionInputs(raw_stream), 1, {})

_parse_reasoning(raw_stream) ==
    UniqueFrom(FindActions(raw_stream), FindActionInputs(raw_stream), 1, {})

InitParse ==
    /\ Constructed
    /\ enable_grader = TRUE
    /\ fn_in \in { [fn |-> "parse", raw_stream |-> r] : r \in RawStreams }
    /\ fn_out = None

\* end_attempt: parsed = self._parse_reasoning(raw_stream)
ApplyParse ==
    /\ fn_out = None
    /\ fn_in.fn = "parse"
    /\ fn_out' = LET parsed == _parse_reasoning(fn_in.raw_stream)
                 IN  [fn |-> "parse", actions |-> parsed.actions,
                      observations |-> parsed.observations]
    /\ UNCHANGED << pc, agentVars, tracerVars, localVars, moduleVars, fn_in >>

SpecParse == InitParse /\ [][ApplyParse]_vars

Parsed == fn_out # None /\ fn_out.fn = "parse"

\* every emission of the stream carries its Action Input
AllWithInput == \A i \in 1..Len(fn_in.raw_stream) : fn_in.raw_stream[i].input # NoInput

\* the actions of the emissions at the positions in keep, in stream order
RECURSIVE ActionsAt(_, _, _)
ActionsAt(raw_stream, keep, i) ==
    IF i > Len(raw_stream) THEN <<>>
    ELSE (IF i \in keep THEN << raw_stream[i].action >> ELSE <<>>)
         \o ActionsAt(raw_stream, keep, i + 1)

C29SameCanonicalEverywhere ==
    (fn_out # None /\ fn_out.fn = "graph_tool") =>
        fn_out.canonical = _resolve_character_alias(fn_in.env, fn_in.name)

(***************************************************************************)
(* IncrementalIngestionPipeline.run.  For each file of the data directory  *)
(* the input says whether its hash differs from the tracked one and how    *)
(* its parsing ends; a parsed document gives chunks.  The output lists the *)
(* files whose tracking entry the run rewrote, the files whose chunks      *)
(* reached the vector store, the phase whose exception ended the run, and  *)
(* the files get_changed_files reports afterwards (no file is edited in    *)
(* between).                                                               *)
(***************************************************************************)
ParseOutcomes == { "ok", "none", "raise" }

PipelineInputs ==
    { [fn |-> "pipeline", files |-> fs, dry_run |-> d, skip_embedding |-> sk,
       embed_ok |-> e, index_ok |-> x] :
         fs \in [Files -> [changed : BOOLEAN, parse : ParseOutcomes]],
         d \in BOOLEAN, sk \in BOOLEAN, e \in BOOLEAN, x \in BOOLEAN }

\* VectorIndexer.upsert_chunks: chunks without an embedding are skipped
upsert_chunks(chunks, embedded) == chunks \cap embedded

\* Phase 5: _update_tracking for every file of changed_files
UpdateTracking(changed_files, indexed) == changed_files

run(inp) ==
    LET changed_files == { f \in Files : inp.files[f].changed }
        \* Phase 2: the files whose chunks are in all_chunks
        all_chunks == { f \in changed_files : inp.files[f].parse = "ok" }
        embedding == ~inp.skip_embedding /\ all_chunks # {}
        embedded == IF embedding /\ inp.embed_ok THEN all_chunks ELSE {}
        indexed == IF all_chunks # {} /\ inp.index_ok
                   THEN upsert_chunks(all_chunks, embedded) ELSE {}
        failure == IF changed_files = {} \/ inp.dry_run THEN "none"
                   ELSE IF embedding /\ ~inp.embed_ok THEN "embedding"
                   ELSE IF all_chunks # {} /\ ~inp.index_ok THEN "indexing"
                   ELSE "none"
        stopped == changed_files = {} \/ inp.dry_run \/ failure # "none"
        tracked == IF stopped THEN {} ELSE UpdateTracking(changed_files, indexed)
    IN  [fn |-> "pipeline",
         tracked |-> tracked,
         indexed |-> IF stopped THEN {} ELSE indexed,
         failure |-> failure,
         changed_next |-> changed_files \ tracked]

InitPipeline ==
    /\ Constructed
    /\ enable_grader = TRUE
    /\ fn_in \in PipelineInputs
    /\ fn_out = None

ApplyRun ==
    /\ fn_out = None
    /\ fn_in.fn = "pipeline"
    /\ fn_out' = run(fn_in)
    /\ UNCHANGED << pc, agentVars, tracerVars, localVars, moduleVars, fn_in >>

SpecPipeline == InitPipeline /\ [][ApplyRun]_vars

PipelineRan == fn_out # None /\ fn_out.fn = "pipeline"

\* C30: run records a file in the tracking only if this run created and indexed its
\* chunks; a changed file whose parsing raised or gave no document, or whose chunks
\* were not upserted, stays untracked and is reported as changed again; after
\* dry_run, an embedding failure or an indexing failure the tracking is unchanged.
C30TrackedOnlyIfIndexed ==
    PipelineRan =>
        /\ fn_out.tracked \subseteq fn_out.indexed
        /\ \A f \in Files :
              (fn_in.files[f].changed /\ f \notin fn_out.indexed)
                 => (f \notin fn_out.tracked /\ f \in fn_out.changed_next)
        /\ (fn_in.dry_run \/ fn_out.failure # "none") => fn_out.tracked = {}

====
